---------------------------- MODULE Spec2Model ----------------------------
(***************************************************************************)
(* A model of the crossword constraint-satisfaction solver of              *)
(* src/crossword/generate.py (class CrosswordCreator): node consistency,   *)
(* revise, the AC-3 worklist loop and the recursive backtracking search.   *)
(*                                                                         *)
(* Words are sequences of letters; Python's 0-based word[i] is the TLA+    *)
(* w[i + 1].  Python's None is the record NoneVal; a returned dict is      *)
(* Some(dict).  Sets the code iterates over (crossword.variables, a        *)
(* domain, the worklist) have no defined order in Python: the order of     *)
(* crossword.variables is fixed at construction (variable `order`), a      *)
(* word or an arc is drawn from its set nondeterministically.              *)
(***************************************************************************)
EXTENDS Naturals, Integers, Sequences, FiniteSets, TLC

\* Largest vocabulary (number of words in the words file) explored.
MaxVocab == 4

\* heredity: the number of update() calls followed.
MaxUpdates == 2

\* heredity: joint probabilities are whole numbers of a unit, 1..MaxP.
MaxP == 2

(***************************************************************************)
(* The puzzle model (crossword.py: Variable, Crossword).                   *)
(***************************************************************************)
ACROSS == "across"
DOWN == "down"

Var(i, j, direction, length) ==
    [i |-> i, j |-> j, direction |-> direction, length |-> length]

\* The cells a slot covers, in order (Variable.cells), as <<row, col>>.
cells(v) ==
    [k \in 1..v.length |->
        <<v.i + (IF v.direction = DOWN THEN k - 1 ELSE 0),
          v.j + (IF v.direction = ACROSS THEN k - 1 ELSE 0)>>]

\* The three grids explored ("_" fillable, "#" blocked), with the slots
\* (maximal runs of two or more fillable cells) of each:
\*
\*   Chain     Cross     Disjoint
\*   _ # #     # _ #     _ _ #
\*   _ _ _     _ _ _     # # #
\*   # # _     # _ #     _ _ _
ChainVars == {Var(0, 0, DOWN, 2), Var(1, 0, ACROSS, 3), Var(1, 2, DOWN, 2)}
CrossVars == {Var(1, 0, ACROSS, 3), Var(0, 1, DOWN, 3)}
DisjointVars == {Var(0, 0, ACROSS, 2), Var(2, 0, ACROSS, 3)}
Structures == {ChainVars, CrossVars, DisjointVars}

\* The words a words file may hold: the empty line included.
Pool ==
    { <<>>, <<"a", "b">>, <<"a", "a">>, <<"b", "a">>,
      <<"a", "b", "a">>, <<"b", "a", "b">>, <<"a", "a", "b">> }

Vocabularies == {ws \in SUBSET Pool : Cardinality(ws) <= MaxVocab}

\* A missing overlap (Python's None in the overlap table): the empty tuple,
\* falsy like None, where a real overlap is a pair.
None == <<>>

\* Crossword.overlaps[x, y] for x # y: None, or <<i, j>> (0-based) with
\* cell i of x the same cell as cell j of y.
overlaps(x, y) ==
    LET cx == cells(x)
        cy == cells(y)
        common == {p \in (1..x.length) \X (1..y.length) : cx[p[1]] = cy[p[2]]}
    IN  IF common = {} THEN None
        ELSE LET p == CHOOSE q \in common : TRUE
             IN  <<p[1] - 1, p[2] - 1>>

\* Crossword.neighbors(var)
neighbors(cw, var) ==
    {v \in cw.variables : v # var /\ overlaps(v, var) # None}

\* The orders in which a set can be iterated.
Orders(S) ==
    {f \in [1..Cardinality(S) -> S] : \A s \in S : \E k \in DOMAIN f : f[k] = s}

(***************************************************************************)
(* Python values.                                                          *)
(***************************************************************************)
len(w) == Len(w)

NoneVal == [none |-> TRUE, val |-> <<>>]
Some(a) == [none |-> FALSE, val |-> a]

\* bool(x) of a returned value: None and the empty dict are falsy.
Truthy(r) == ~r.none /\ DOMAIN r.val # {}

\* dict(): the empty assignment.
EmptyDict == <<>>

\* assignment.update({variable: word})
Update(a, variable, word) ==
    [v \in DOMAIN a \cup {variable} |-> IF v = variable THEN word ELSE a[v]]

\* Mutant: pop leaves the entry in place.
Pop_keeps(a, variable) == a

\* assignment.pop(variable)
Pop(a, variable) == [v \in DOMAIN a \ {variable} |-> a[v]]

NoArc == <<>>

(***************************************************************************)
(* CrosswordCreator: pure parts.                                           *)
(***************************************************************************)
\* Mutant: words shorter than the slot are kept (<= for ==).
node_consistent_keeps_shorter(key, value) ==
    {word \in value : len(word) <= key.length}

\* enforce_node_consistency, lines 103-106: what is left of domain `value`
\* of slot `key`.
node_consistent(key, value) == {word \in value : len(word) = key.length}

\* Mutant: a word is kept only if every word of domains[y] agrees with it.
valid_words_all(doms, x, y, overlap) ==
    {wordX \in doms[x] :
        \A wordY \in doms[y] : wordX[overlap[1] + 1] = wordY[overlap[2] + 1]}

\* Mutant: the matching word of y is collected instead of the word of x.
valid_words_adds_y(doms, x, y, overlap) ==
    {wordY \in doms[y] :
        \E wordX \in doms[x] : wordX[overlap[1] + 1] = wordY[overlap[2] + 1]}

\* Mutant: a word is kept only if it agrees with every word of domains[y].
valid_words_strict(doms, x, y, overlap) ==
    {wordX \in doms[x] :
        \A wordY \in doms[y] : wordX[overlap[1] + 1] = wordY[overlap[2] + 1]}

\* revise, lines 122-128: the words of domains[x] with a partner in
\* domains[y]; overlap is <<i, j>>.
valid_words(doms, x, y, overlap) ==
    LET i == overlap[1]
        j == overlap[2]
    IN  {wordX \in doms[x] :
            \E wordY \in doms[y] : wordX[i + 1] = wordY[j + 1]}

\* Mutant: revise always reports a change.
revise_result_always(doms, x, valid) == TRUE

\* revise, lines 130-134: the return value.
revise_result(doms, x, valid) == valid # doms[x]

\* ac3, lines 154-159: the initial worklist.
all_arcs(cw) ==
    {a \in cw.variables \X cw.variables : a[2] \in neighbors(cw, a[1])}

\* Mutant: only the arcs out of X are added again, not those into X.
requeued_forward_only(cw, X) == {<<X, Z>> : Z \in neighbors(cw, X)}

\* Mutant: no arc is added again.
requeued_none(cw, X) == {}

\* Mutant: only the arcs into X are added again, not those out of X.
requeued_backward_only(cw, X) == {<<Z, X>> : Z \in neighbors(cw, X)}

\* ac3, lines 171-175: the arcs added after domains[X] changed.
requeued(cw, X) ==
    UNION {{<<X, Z>>, <<Z, X>>} : Z \in neighbors(cw, X)}

\* Mutant: the letters at the overlap are not compared.
consistent_ignores_overlap(cw, a) ==
    \A variable \in cw.variables :
        (variable \in DOMAIN a /\ a[variable] # <<>>) =>
            /\ len(a[variable]) = variable.length
            /\ \A neighbor \in neighbors(cw, variable) :
                    (neighbor \in DOMAIN a /\ a[neighbor] # <<>>) =>
                        a[variable] # a[neighbor]

\* Mutant: a word may be used once in the whole grid, not once among
\* crossing slots.
consistent_all_distinct(cw, a) ==
    /\ consistent_ignores_overlap(cw, a)
    /\ \A variable \in DOMAIN a, neighbor \in DOMAIN a :
          /\ variable # neighbor => a[variable] # a[neighbor]
          /\ (variable # neighbor /\ overlaps(variable, neighbor) # None) =>
                a[variable][overlaps(variable, neighbor)[1] + 1]
                    = a[neighbor][overlaps(variable, neighbor)[2] + 1]

\* consistent, lines 196-223.
consistent(cw, a) ==
    \A variable \in cw.variables :
        (variable \in DOMAIN a /\ a[variable] # <<>>) =>
            /\ len(a[variable]) = variable.length
            /\ \A neighbor \in neighbors(cw, variable) :
                    (neighbor \in DOMAIN a /\ a[neighbor] # <<>>) =>
                        /\ a[variable] # a[neighbor]
                        /\ LET overlap == overlaps(variable, neighbor)
                           IN  overlap # None =>
                                 a[variable][overlap[1] + 1]
                                     = a[neighbor][overlap[2] + 1]

\* The first outcome other than "ok" in a sequence of outcomes, "ok" if
\* there is none: a loop that returns or raises at its first failing pass.
first_exit(outcomes) ==
    LET exits == {k \in DOMAIN outcomes : outcomes[k] # "ok"}
    IN  IF exits = {} THEN "ok"
        ELSE outcomes[CHOOSE k \in exits : \A m \in exits : k <= m]

\* consistent, lines 208-222, one pass of the loop over the neighbours:
\* "False" where the code returns False, "IndexError" where n_value[j] is
\* past the end of n_value, "ok" where the loop goes on.  value has the
\* length of variable (line 202), so value[i] is in range.
consistent_neighbor(a, variable, neighbor) ==
    LET value == a[variable]
        n_value == a[neighbor]
        overlap == overlaps(variable, neighbor)
    IN  IF neighbor \notin DOMAIN a THEN "ok"
        ELSE IF n_value = <<>> THEN "ok"
        ELSE IF value = n_value THEN "False"
        ELSE IF overlap = None THEN "ok"
        ELSE IF overlap[2] + 1 > len(n_value) THEN "IndexError"
        ELSE IF value[overlap[1] + 1] # n_value[overlap[2] + 1] THEN "False"
        ELSE "ok"

\* consistent, lines 198-222, one pass of the loop over the slots;
\* neighbor_order is the order in which the sets of neighbours are iterated.
consistent_variable(cw, a, variable, neighbor_order) ==
    LET its_neighbors ==
            SelectSeq(neighbor_order,
                      LAMBDA n : n \in neighbors(cw, variable))
    IN  IF variable \notin DOMAIN a THEN "ok"
        ELSE IF a[variable] = <<>> THEN "ok"
        ELSE IF len(a[variable]) # variable.length THEN "False"
        ELSE first_exit([k \in DOMAIN its_neighbors |->
                            consistent_neighbor(a, variable, its_neighbors[k])])

\* consistent, lines 191-223, on any assignment: "True", "False" or
\* "IndexError"; ord is the order in which crossword.variables is iterated.
consistent_outcome(cw, a, ord, neighbor_order) ==
    LET exit == first_exit([k \in DOMAIN ord |->
                    consistent_variable(cw, a, ord[k], neighbor_order)])
    IN  IF exit = "ok" THEN "True" ELSE exit

\* The assignments of the claim about consistent: some slots, each with a
\* word of the vocabulary or the empty string.
AnyAssignments(cw) ==
    UNION {[S -> cw.words \cup {<<>>}] : S \in SUBSET cw.variables}

\* Mutant: the assignment counts as complete one slot early.
all_assigned_off_by_one(cw, a) ==
    Cardinality(cw.variables) <= Cardinality(DOMAIN a) + 1

\* backtrack, line 314
all_assigned(cw, a) == Cardinality(cw.variables) = Cardinality(DOMAIN a)

\* backtrack, lines 317-318: the first slot, in iteration order, that is
\* not in the assignment.
first_unassigned(ord, a) ==
    ord[CHOOSE k \in DOMAIN ord :
            /\ ord[k] \notin DOMAIN a
            /\ \A m \in 1..(k - 1) : ord[m] \in DOMAIN a]

\* sorted(items, key=...): ascending by key, equal keys in their order in seq
\* (Python's sort is stable).  key is a function on the elements.
sorted(seq, key) ==
    LET rank(i) == 1 + Cardinality({m \in DOMAIN seq :
                        \/ key[seq[m]] < key[seq[i]]
                        \/ key[seq[m]] = key[seq[i]] /\ m < i})
    IN  [r \in DOMAIN seq |-> seq[CHOOSE i \in DOMAIN seq : rank(i) = r]]

\* sorted(items, key=..., reverse=True): descending by key, equal keys still
\* in their order in seq.
sorted_reverse(seq, key) ==
    LET rank(i) == 1 + Cardinality({m \in DOMAIN seq :
                        \/ key[seq[m]] > key[seq[i]]
                        \/ key[seq[m]] = key[seq[i]] /\ m < i})
    IN  [r \in DOMAIN seq |-> seq[CHOOSE i \in DOMAIN seq : rank(i) = r]]

\* Mutant: the tied slots are sorted by ascending number of neighbours.
tie_break_fewest(cw, tied) ==
    IF tied = <<>> THEN tied
    ELSE sorted(tied, [v \in {tied[m] : m \in DOMAIN tied} |->
                            Cardinality(neighbors(cw, v))])

\* select_unassigned_variable, lines 285-297: the slots tied with the first
\* of sorted_variables, by descending number of neighbours.
tie_break(cw, tied) ==
    IF tied = <<>> THEN tied
    ELSE sorted_reverse(tied, [v \in {tied[m] : m \in DOMAIN tied} |->
                                    Cardinality(neighbors(cw, v))])

\* select_unassigned_variable, lines 262-301.  The value is
\* [raised, value]: with every slot assigned, sorted_variables[0] raises
\* IndexError (line 273).
select_unassigned_variable(cw, ord, doms, a) ==
    LET unassigned == SelectSeq(ord, LAMBDA v : v \notin DOMAIN a)
        variable_values ==
            [v \in {unassigned[m] : m \in DOMAIN unassigned} |->
                Cardinality(doms[v])]
        sorted_variables == sorted(unassigned, variable_values)
        sorted_values ==
            [m \in DOMAIN sorted_variables |->
                variable_values[sorted_variables[m]]]
        all_distinct ==
            \A m \in DOMAIN sorted_values, n \in DOMAIN sorted_values :
                m # n => sorted_values[m] # sorted_values[n]
        duplicate_indexes ==
            {j \in 2..Len(sorted_values) : sorted_values[1] = sorted_values[j]}
        \* num_neigbors' keys in insertion order: the first slot, then the
        \* slots tied with it (they follow it in sorted_variables)
        tied == IF duplicate_indexes = {} THEN <<>>
                ELSE SubSeq(sorted_variables, 1,
                            1 + Cardinality(duplicate_indexes))
        sorted_num_neighbors == tie_break(cw, tied)
    IN  IF unassigned = <<>>
        THEN [raised |-> TRUE, value |-> <<>>]
        ELSE IF all_distinct
        THEN [raised |-> FALSE, value |-> sorted_variables[1]]
        ELSE IF sorted_num_neighbors # <<>>
        THEN [raised |-> FALSE, value |-> sorted_num_neighbors[1]]
        ELSE [raised |-> FALSE, value |-> sorted_variables[1]]

\* Mutant: the words of assigned neighbours are counted too.
order_values_counts_assigned(cw, doms, var, a) ==
    LET overlap == [n \in neighbors(cw, var) |-> overlaps(var, n)]
    IN  [value \in doms[var] |->
            Cardinality({nv \in (DOMAIN overlap) \X cw.words :
                /\ nv[2] \in doms[nv[1]]
                /\ value[overlap[nv[1]][1] + 1]
                        # nv[2][overlap[nv[1]][2] + 1]})]

\* order_domain_values, lines 232-248: for each word of domains[var], the
\* number of words n_value in the domains of the neighbours that are not in
\* the assignment with value[i] != n_value[j].
order_values(cw, doms, var, a) ==
    LET overlap == [n \in neighbors(cw, var) \ DOMAIN a |-> overlaps(var, n)]
    IN  [value \in doms[var] |->
            Cardinality({nv \in (DOMAIN overlap) \X cw.words :
                /\ nv[2] \in doms[nv[1]]
                /\ value[overlap[nv[1]][1] + 1]
                        # nv[2][overlap[nv[1]][2] + 1]})]

\* order_domain_values, lines 250-252: the words sorted by their count;
\* items is the order in which the set domains[var] is iterated, which is
\* the insertion order of order_values.
order_domain_values(cw, doms, var, a, items) ==
    sorted(items, order_values(cw, doms, var, a))

\* The assignments a caller passes to the heuristics: some slots, each with
\* a word of its domain (what a search builds).
SearchAssignments(cw, doms) ==
    UNION {{a \in [S -> cw.words] : \A v \in S : a[v] \in doms[v]} :
              S \in SUBSET cw.variables}

(***************************************************************************)
(* State.                                                                  *)
(***************************************************************************)
VARIABLES
    crossword,   \* [variables, words]: the puzzle, never mutated
    order,       \* iteration order of crossword.variables
    entry,       \* what the caller runs: "solve", "revise" calls, or "calls"
                 \* of the other methods around ac3()
    domains,     \* self.domains
    pc,          \* position in the program
    idx,         \* enforce_node_consistency: index of the next slot
    arcs,        \* ac3: the worklist
    arc,         \* ac3: the popped arc (X, Y); revise: its arguments (x, y)
    revised,     \* the value revise returned
    ac3result,   \* the value ac3 returned: "pending", "true" or "false"
    assignment,  \* backtrack: the assignment dict (one object, shared)
    stack,       \* backtrack: one frame [variable, untried] per active loop
    ret,         \* the value the last backtrack call returned
    result,      \* the value solve returned
    call,        \* a caller's last direct call of a pure method, with its value
    probabilities,  \* heredity: the probabilities dict update() works on
    update_args,    \* heredity: update's one_gene, two_genes, have_trait, p
    hpc,            \* heredity: position in the program
    person_idx,         \* heredity: update's loop, index of the next person
    before,         \* heredity: probabilities as update() was called
    updates         \* heredity: the number of update() calls made

vars ==
    <<crossword, order, entry, domains, pc, idx, arcs, arc, revised, ac3result,
      assignment, stack, ret, result, call,
      probabilities, update_args, hpc, person_idx, before, updates>>

heredity == <<probabilities, update_args, hpc, person_idx, before, updates>>

puzzle == <<crossword, order, entry>>
ac3_locals == <<arcs, arc, revised, ac3result>>
search == <<assignment, stack, ret, result>>

NoCall == [op |-> "none"]

\* heredity.py at rest: the state of its variables while the crossword
\* program runs.
HeredityIdle ==
    /\ probabilities = <<>>
    /\ update_args = <<>>
    /\ hpc = "idle"
    /\ person_idx = 0
    /\ before = <<>>
    /\ updates = 0

\* __init__, lines 12-16, for a caller that goes on as `entry` says.
Start(entries) ==
    /\ \E variables \in Structures, words \in Vocabularies :
          /\ crossword = [variables |-> variables, words |-> words]
          /\ order \in Orders(variables)
          /\ domains = [var \in variables |-> words]
    /\ entry \in entries
    /\ call = NoCall
    /\ HeredityIdle
    /\ pc = "enforce_node_consistency"
    /\ idx = 1
    /\ arcs = {}
    /\ arc = NoArc
    /\ revised = FALSE
    /\ ac3result = "pending"
    /\ assignment = EmptyDict
    /\ stack = <<>>
    /\ ret = NoneVal
    /\ result = NoneVal

\* A program that calls solve(), or revise() after node consistency.
Init == Start({"solve", "revise"})

(***************************************************************************)
(* Node consistency and arc consistency.                                   *)
(***************************************************************************)
\* enforce_node_consistency, lines 102-106: one slot per step, in the
\* dict's order; then solve goes on to ac3 (line 93).
enforce_node_consistency ==
    /\ pc = "enforce_node_consistency"
    /\ IF idx <= Len(order)
       THEN /\ domains' = [domains EXCEPT
                              ![order[idx]] = node_consistent(order[idx], @)]
            /\ idx' = idx + 1
            /\ pc' = pc
       ELSE /\ pc' = IF entry = "revise" THEN "caller" ELSE "ac3"
            /\ UNCHANGED <<domains, idx>>
    /\ UNCHANGED <<call, heredity, puzzle, ac3_locals, search>>

\* A caller's direct revise(x, y) on two distinct slots.
call_revise ==
    /\ pc = "caller"
    /\ \E x \in crossword.variables, y \in crossword.variables :
          /\ x # y
          /\ arc' = <<x, y>>
    /\ pc' = "revise"
    /\ UNCHANGED <<call, heredity, puzzle, domains, idx, arcs, revised, ac3result, search>>

\* ac3, lines 147-159, called with arcs = None.
ac3_seed ==
    /\ pc = "ac3"
    /\ arcs' = all_arcs(crossword)
    /\ pc' = "ac3_loop"
    /\ UNCHANGED <<call, heredity, puzzle, domains, idx, arc, revised, ac3result, search>>

\* ac3, lines 161-166 and 177: pop an arc and call revise, or return True.
ac3_pop ==
    /\ pc = "ac3_loop"
    /\ IF arcs # {}
       THEN /\ \E a \in arcs :
                  /\ arc' = a
                  /\ arcs' = arcs \ {a}
            /\ pc' = "revise"
            /\ UNCHANGED ac3result
       ELSE /\ ac3result' = "true"
            /\ pc' = "ac3_returned"
            /\ UNCHANGED <<arcs, arc>>
    /\ UNCHANGED <<call, heredity, puzzle, domains, idx, revised, search>>

\* revise, lines 117-136.  Line 118 subscripts the overlap before line 121
\* tests it: on None that raises TypeError.
revise ==
    /\ pc = "revise"
    /\ LET x == arc[1]
           y == arc[2]
           overlap == overlaps(x, y)
       IN  IF overlap = None
           THEN /\ pc' = "raised"
                /\ UNCHANGED <<domains, revised>>
           ELSE LET valid == valid_words(domains, x, y, overlap)
                IN  /\ revised' = revise_result(domains, x, valid)
                    /\ domains' = IF revised'
                                  THEN [domains EXCEPT ![x] = valid]
                                  ELSE domains
                    /\ pc' = IF entry = "revise" THEN "caller"
                                                   ELSE "ac3_after"
    /\ UNCHANGED <<call, heredity, puzzle, idx, arcs, arc, ac3result, search>>

\* ac3, lines 166-175: after revise(X, Y) returned.
ac3_after ==
    /\ pc = "ac3_after"
    /\ LET X == arc[1]
       IN  IF revised
           THEN IF Cardinality(domains[X]) = 0
                THEN /\ ac3result' = "false"
                     /\ pc' = "ac3_returned"
                     /\ UNCHANGED arcs
                ELSE /\ arcs' = arcs \cup requeued(crossword, X)
                     /\ pc' = "ac3_loop"
                     /\ UNCHANGED ac3result
           ELSE /\ pc' = "ac3_loop"
                /\ UNCHANGED <<arcs, ac3result>>
    /\ UNCHANGED <<call, heredity, puzzle, domains, idx, arc, revised, search>>

\* solve, line 94: whatever ac3 returned, call backtrack(dict()).
solve_backtrack ==
    /\ pc = "ac3_returned"
    /\ assignment' = EmptyDict
    /\ pc' = "backtrack"
    /\ UNCHANGED <<call, heredity, puzzle, domains, idx, ac3_locals, stack, ret, result>>

(***************************************************************************)
(* Backtracking search.  The recursion is an explicit stack: a frame holds *)
(* its call's loop variable and the words of the domain not yet iterated,  *)
(* and remembers the assignment its call was entered with.                 *)
(***************************************************************************)
\* backtrack, lines 312-320: a call begins.  A complete assignment is
\* returned; otherwise the call loops over the domain of the first
\* unassigned slot.
backtrack_enter ==
    /\ pc = "backtrack"
    /\ IF all_assigned(crossword, assignment)
       THEN /\ ret' = Some(assignment)
            /\ pc' = "return"
            /\ UNCHANGED stack
       ELSE LET variable == first_unassigned(order, assignment)
            IN  /\ stack' = Append(stack, [variable |-> variable,
                                           untried |-> domains[variable],
                                           entered |-> assignment])
                /\ pc' = "loop"
                /\ UNCHANGED ret
    /\ UNCHANGED <<call, heredity, puzzle, domains, idx, ac3_locals, assignment, result>>

\* Mutant: the word tried is taken out of the slot's domain.
backtrack_assign_consumes ==
    /\ pc = "loop"
    /\ LET top == stack[Len(stack)]
       IN  IF top.untried # {}
           THEN /\ \E domain \in top.untried :
                      /\ assignment' = Update(assignment, top.variable, domain)
                      /\ stack' = [stack EXCEPT ![Len(stack)].untried =
                                                    @ \ {domain}]
                      /\ domains' = [domains EXCEPT ![top.variable] =
                                                    @ \ {domain}]
                /\ pc' = "check"
                /\ UNCHANGED ret
           ELSE /\ stack' = SubSeq(stack, 1, Len(stack) - 1)
                /\ ret' = NoneVal
                /\ pc' = "return"
                /\ UNCHANGED <<assignment, domains>>
    /\ UNCHANGED <<call, heredity, puzzle, idx, ac3_locals, result>>

\* backtrack, lines 320-321 and 331: the next word of the domain is written
\* into the assignment; with none left the call returns None.
backtrack_assign ==
    /\ pc = "loop"
    /\ LET top == stack[Len(stack)]
       IN  IF top.untried # {}
           THEN /\ \E domain \in top.untried :
                      /\ assignment' = Update(assignment, top.variable, domain)
                      /\ stack' = [stack EXCEPT ![Len(stack)].untried =
                                                    @ \ {domain}]
                /\ pc' = "check"
                /\ UNCHANGED ret
           ELSE /\ stack' = SubSeq(stack, 1, Len(stack) - 1)
                /\ ret' = NoneVal
                /\ pc' = "return"
                /\ UNCHANGED assignment
    /\ UNCHANGED <<call, heredity, puzzle, domains, idx, ac3_locals, result>>

\* backtrack, lines 323-329: a consistent assignment is searched further
\* (the recursive call); an inconsistent one loses the word again.
backtrack_check ==
    /\ pc = "check"
    /\ IF consistent(crossword, assignment)
       THEN /\ pc' = "backtrack"
            /\ UNCHANGED assignment
       ELSE /\ assignment' = Pop(assignment, stack[Len(stack)].variable)
            /\ pc' = "loop"
    /\ UNCHANGED <<call, heredity, puzzle, domains, idx, ac3_locals, stack, ret, result>>

\* backtrack, lines 325-329, and solve, line 94: a call returned `ret`.
\* The root call's value is solve's; a caller passes a truthy value on and
\* after a falsy one pops its word and goes on with its loop.
backtrack_return ==
    /\ pc = "return"
    /\ IF stack = <<>>
       THEN /\ result' = ret
            /\ pc' = "done"
            /\ UNCHANGED <<assignment, stack>>
       ELSE IF Truthy(ret)
            THEN /\ stack' = SubSeq(stack, 1, Len(stack) - 1)
                 /\ UNCHANGED <<assignment, pc, result>>
            ELSE /\ assignment' = Pop(assignment, stack[Len(stack)].variable)
                 /\ pc' = "loop"
                 /\ UNCHANGED <<stack, result>>
    /\ UNCHANGED <<call, heredity, puzzle, domains, idx, ac3_locals, ret>>

(***************************************************************************)
(* Direct calls of the methods the search does not call itself.            *)
(***************************************************************************)
\* Where a caller of the heuristics stands: before ac3() or after it.
BetweenCalls == entry = "calls" /\ pc \in {"ac3", "ac3_returned"}

\* A caller's select_unassigned_variable(assignment).
call_select_unassigned_variable ==
    /\ BetweenCalls
    /\ pc' = "called"
    /\ \E a \in SearchAssignments(crossword, domains) :
          LET r == select_unassigned_variable(crossword, order, domains, a)
          IN  call' = [op |-> "select_unassigned_variable", assignment |-> a,
                       raised |-> r.raised, value |-> r.value]
    /\ UNCHANGED <<heredity, puzzle, domains, idx, ac3_locals, search>>

Next ==
    \/ enforce_node_consistency
    \/ call_revise
    \/ ac3_seed
    \/ ac3_pop
    \/ revise
    \/ ac3_after
    \/ solve_backtrack
    \/ backtrack_enter
    \/ backtrack_assign
    \/ backtrack_check
    \/ backtrack_return

Spec == Init /\ [][Next]_vars

\* A caller's order_domain_values(var, assignment).
call_order_domain_values ==
    /\ BetweenCalls
    /\ pc' = "called"
    /\ \E var \in crossword.variables :
          \E a \in SearchAssignments(crossword, domains) :
             \E items \in Orders(domains[var]) :
                call' = [op |-> "order_domain_values", var |-> var,
                         assignment |-> a,
                         value |-> order_domain_values(crossword, domains,
                                                        var, a, items)]
    /\ UNCHANGED <<heredity, puzzle, domains, idx, ac3_locals, search>>

\* A caller's consistent(assignment).
call_consistent ==
    /\ BetweenCalls
    /\ pc' = "called"
    /\ \E a \in AnyAssignments(crossword) :
          \E neighbor_order \in Orders(crossword.variables) :
             call' = [op |-> "consistent", assignment |-> a,
                      value |-> consistent_outcome(crossword, a, order,
                                                   neighbor_order)]
    /\ UNCHANGED <<heredity, puzzle, domains, idx, ac3_locals, search>>

\* solve() alone, run to its end: every step that can be taken is taken.
InitSolve == Start({"solve"})

NextSolve ==
    \/ enforce_node_consistency
    \/ ac3_seed
    \/ ac3_pop
    \/ revise
    \/ ac3_after
    \/ solve_backtrack
    \/ backtrack_enter
    \/ backtrack_assign
    \/ backtrack_check
    \/ backtrack_return

SpecSolve == InitSolve /\ [][NextSolve]_vars /\ WF_vars(NextSolve)

\* A program that enforces node consistency, runs ac3() and, before or
\* after ac3(), calls one of the other methods directly.
InitCalls == Start({"calls"})

NextCalls ==
    \/ enforce_node_consistency
    \/ ac3_seed
    \/ ac3_pop
    \/ revise
    \/ ac3_after
    \/ call_select_unassigned_variable

SpecCalls == InitCalls /\ [][NextCalls]_vars

\* The same program calling order_domain_values.
NextOrder ==
    \/ enforce_node_consistency
    \/ ac3_seed
    \/ ac3_pop
    \/ revise
    \/ ac3_after
    \/ call_order_domain_values

SpecOrder == InitCalls /\ [][NextOrder]_vars

\* A program that calls consistent on its own assignments.
NextConsistent ==
    \/ enforce_node_consistency
    \/ call_consistent

SpecConsistent == InitCalls /\ [][NextConsistent]_vars

(***************************************************************************)
(* heredity.py: update().  main's loop calls update on the same            *)
(* probabilities dict with every pair of disjoint one_gene, two_genes and  *)
(* every have_trait; a call's loop handles one person per step.  The       *)
(* crossword program is not running.                                       *)
(***************************************************************************)
\* The people of the data file, in the dict's order.
people == <<"Harry", "James">>

names == {people[k] : k \in DOMAIN people}

\* Mutant: the counts of one_gene and two_genes are swapped.
gene_key_swapped(person, one_gene, two_genes) ==
    IF person \in one_gene THEN 2
    ELSE IF person \in two_genes THEN 1
    ELSE 0

\* update, lines 275, 282, 289: the key of the "gene" entry that is updated.
gene_key(person, one_gene, two_genes) ==
    IF person \in one_gene THEN 1
    ELSE IF person \in two_genes THEN 2
    ELSE 0

\* main, lines 49-62.
InitHeredity ==
    /\ probabilities =
          [person \in names |->
              [gene |-> [g \in 0..2 |-> 0], trait |-> [t \in BOOLEAN |-> 0]]]
    /\ update_args = <<>>
    /\ hpc = "main"
    /\ person_idx = 0
    /\ before = probabilities
    /\ updates = 0
    /\ crossword = [variables |-> {}, words |-> {}]
    /\ order = <<>>
    /\ entry = "none"
    /\ domains = <<>>
    /\ pc = "idle"
    /\ idx = 0
    /\ arcs = {}
    /\ arc = NoArc
    /\ revised = FALSE
    /\ ac3result = "pending"
    /\ assignment = EmptyDict
    /\ stack = <<>>
    /\ ret = NoneVal
    /\ result = NoneVal
    /\ call = NoCall

\* main, lines 65-83: the next call of update.
main_update ==
    /\ hpc = "main"
    /\ updates < MaxUpdates
    /\ \E have_trait \in SUBSET names, one_gene \in SUBSET names, p \in 1..MaxP :
          \E two_genes \in SUBSET (names \ one_gene) :
             update_args' = [one_gene |-> one_gene, two_genes |-> two_genes,
                             have_trait |-> have_trait, p |-> p]
    /\ before' = probabilities
    /\ person_idx' = 1
    /\ updates' = updates + 1
    /\ hpc' = "update"
    /\ UNCHANGED <<probabilities, call, puzzle, domains, pc, idx, ac3_locals,
                   search>>

\* update, lines 273-294: one pass of `for person in probabilities`.
update_person ==
    /\ hpc = "update"
    /\ person_idx <= Len(people)
    /\ LET person == people[person_idx]
           p == update_args.p
           g == gene_key(person, update_args.one_gene, update_args.two_genes)
           t == person \in update_args.have_trait
       IN  probabilities' =
              [probabilities EXCEPT ![person].gene[g] = @ + p,
                                    ![person].trait[t] = @ + p]
    /\ person_idx' = person_idx + 1
    /\ UNCHANGED <<update_args, hpc, before, updates, call, puzzle, domains,
                   pc, idx, ac3_locals, search>>

\* update: the loop is over, back to main.
update_return ==
    /\ hpc = "update"
    /\ person_idx > Len(people)
    /\ hpc' = "main"
    /\ UNCHANGED <<probabilities, update_args, person_idx, before, updates,
                   call, puzzle, domains, pc, idx, ac3_locals, search>>

NextHeredity ==
    \/ main_update
    \/ update_person
    \/ update_return

SpecHeredity == InitHeredity /\ [][NextHeredity]_vars

(***************************************************************************)
(* Properties.  What the claims speak of, stated apart from the code.      *)
(***************************************************************************)
BacktrackPcs == {"backtrack", "loop", "check", "return"}

Neighbouring(x, y) == x # y /\ overlaps(x, y) # None

\* Word w of slot x and word v of slot y agree where the slots cross.
Agree(x, w, y, v) ==
    LET ij == overlaps(x, y) IN w[ij[1] + 1] = v[ij[2] + 1]

\* a assigns a word to every slot, each of its slot's length, and crossing
\* slots hold different words that agree where they cross.
IsSolution(cw, a) ==
    /\ DOMAIN a = cw.variables
    /\ \A x \in cw.variables : Len(a[x]) = x.length
    /\ \A x \in cw.variables, y \in cw.variables :
          Neighbouring(x, y) => a[x] # a[y] /\ Agree(x, a[x], y, a[y])

\* The complete consistent assignments over the domains doms.
Solutions(cw, doms) ==
    {a \in [cw.variables -> UNION {doms[v] : v \in cw.variables}] :
        (\A v \in cw.variables : a[v] \in doms[v]) /\ IsSolution(cw, a)}

\* The domain node consistency leaves to slot v.
RightLength(cw, v) == {w \in cw.words : Len(w) = v.length}

\* C1: whatever solve() returns is the no-solution value or an assignment
\* that gives every slot a word of its length, with crossing slots holding
\* different words that agree at the overlap: never a partial or
\* inconsistent one.
SearchSound ==
    (entry = "solve" /\ pc = "done") =>
        (result.none \/ IsSolution(crossword, result.val))

\* C1 witness: a solve() of the three-slot grid returned an assignment.
SearchSoundWitness ==
    /\ entry = "solve" /\ pc = "done" /\ ~result.none
    /\ crossword.variables = ChainVars

\* C2: if a complete consistent assignment over the pruned domains exists,
\* backtrack on the empty assignment returns one, not the no-solution
\* value.
SearchComplete ==
    (pc = "done" /\ Solutions(crossword, domains) # {}) =>
        (~result.none /\ result.val \in Solutions(crossword, domains))

\* C2 witness: the search returned a solution where not every choice leads
\* to one: some word of some domain is part of no solution.
SearchCompleteWitness ==
    /\ pc = "done" /\ ~result.none
    /\ Solutions(crossword, domains) # {}
    /\ \E x \in crossword.variables : \E w \in domains[x] :
          \A a \in Solutions(crossword, domains) : a[x] # w

\* C3: once ac3 has emptied a domain (it returned False), solve() returns
\* no solution without backtrack being invoked.  solve discards ac3's
\* result and calls backtrack all the same.
NoSearchAfterAc3Failure == ac3result = "false" => pc \notin BacktrackPcs

\* What does hold after ac3 returned False: the search solve() then runs
\* fails, and solve() returns the no-solution value.
NoSolutionAfterAc3Failure ==
    (pc = "done" /\ ac3result = "false") => result.none

\* solve() returned after ac3 reported failure.
NoSolutionAfterAc3FailureWitness ==
    /\ pc = "done" /\ ac3result = "false"
    /\ \E v \in crossword.variables : RightLength(crossword, v) # {}

\* C4: after ac3() returned True, every word of every domain has, for every
\* neighbour of its slot, a word in the neighbour's domain agreeing with it
\* at the overlap.
ArcConsistentAfterAc3 ==
    ac3result = "true" =>
        \A x \in crossword.variables, y \in crossword.variables :
            Neighbouring(x, y) =>
                \A w \in domains[x] : \E v \in domains[y] : Agree(x, w, y, v)

\* C4 witness: ac3 returned True having pruned a domain that node
\* consistency had left larger, without emptying it.
ArcConsistentAfterAc3Witness ==
    /\ pc = "ac3_returned" /\ ac3result = "true"
    /\ \E v \in crossword.variables :
          domains[v] # {} /\ domains[v] # RightLength(crossword, v)

\* C5: ac3 returns True only with no domain empty, and False whenever some
\* domain is empty, whatever the domains were when it started.  ac3 looks
\* only at the domain a revise has just changed.
Ac3ResultTellsEmptiness ==
    pc = "ac3_returned" =>
        (ac3result = "true" <=> \A v \in crossword.variables : domains[v] # {})

\* C6: revise(x, y) on two slots without an overlap returns False, raises
\* nothing and leaves every domain as it was.  The code raises TypeError.
ReviseWithoutOverlapIsNoOp ==
    [][(pc = "revise" /\ overlaps(arc[1], arc[2]) = None) =>
          (pc' # "raised" /\ revised' = FALSE /\ domains' = domains)]_vars

NodeConsistentDomains ==
    \A v \in crossword.variables : \A w \in domains[v] : Len(w) = v.length

\* C7: on node-consistent domains and slots x, y that overlap, revise(x, y)
\* leaves in domain(x) exactly the words of the old domain(x) that some word
\* of domain(y) agrees with at the overlap, and returns True iff domain(x)
\* changed.
ReviseKeepsSupportedWords ==
    [][(/\ pc = "revise"
        /\ overlaps(arc[1], arc[2]) # None
        /\ NodeConsistentDomains) =>
          LET x == arc[1]
              y == arc[2]
          IN  /\ domains'[x] =
                    {w \in domains[x] :
                        \E v \in domains[y] : Agree(x, w, y, v)}
              /\ revised' <=> (domains'[x] # domains[x])]_vars

\* C7 witness: a direct revise(x, y) returned True, having removed a word
\* and kept a word.
ReviseKeepsSupportedWordsWitness ==
    /\ pc = "caller" /\ arc # NoArc /\ revised
    /\ domains[arc[1]] # {}
    /\ domains[arc[1]] # RightLength(crossword, arc[1])

NodeConsistencyDone == pc = "enforce_node_consistency" /\ idx > Len(order)

\* C8: after enforce_node_consistency every slot's domain is exactly the
\* set of vocabulary words of the slot's length.
NodeConsistencyExact ==
    NodeConsistencyDone =>
        \A v \in crossword.variables :
            domains[v] = {w \in crossword.words : Len(w) = v.length}

\* C8 witness: node consistency is done, and removed words from a domain
\* in which it also left words.
NodeConsistencyExactWitness ==
    /\ NodeConsistencyDone
    /\ \E v \in crossword.variables :
          domains[v] # {} /\ domains[v] # crossword.words

\* C9: in every step of node consistency, revise and ac3 each domain is a
\* subset of its previous value and of the vocabulary.
DomainsOnlyShrink ==
    [][\A v \in crossword.variables :
          domains'[v] \subseteq domains[v]
            /\ domains'[v] \subseteq crossword.words]_vars

\* C9 witness: ac3 has returned, with a domain strictly smaller than node
\* consistency left it, which is strictly smaller than the vocabulary.
DomainsOnlyShrinkWitness ==
    /\ pc = "ac3_returned"
    /\ \E v \in crossword.variables :
          /\ domains[v] # RightLength(crossword, v)
          /\ RightLength(crossword, v) # crossword.words

Degree(v) == Cardinality(neighbors(crossword, v))

\* The slots of U the MRV/degree rule allows: smallest domain, and among
\* those the most neighbours.
MRVDegreeChoices(U) ==
    {v \in U : \A u \in U :
        \/ Cardinality(domains[v]) < Cardinality(domains[u])
        \/ /\ Cardinality(domains[v]) = Cardinality(domains[u])
           /\ Degree(v) >= Degree(u)}

\* The number of (neighbour n in U, word v of domain(n)) that word w of slot
\* var rules out.
Eliminations(var, w, U) ==
    Cardinality({nv \in (neighbors(crossword, var) \cap U) \X Pool :
                    nv[2] \in domains[nv[1]]
                        /\ ~Agree(var, w, nv[1], nv[2])})

\* C10: at every node of the search the slot being tried is one
\* the MRV/degree rule allows among the slots unassigned at that node, and
\* its words are tried in ascending order of elimination count.  backtrack
\* takes slots and words in iteration order instead.
SearchFollowsHeuristics ==
    \A p \in DOMAIN stack :
        LET var == stack[p].variable
            U == crossword.variables \ {stack[q].variable : q \in 1..p}
        IN  /\ var \in MRVDegreeChoices(U \cup {var})
            /\ \A t \in domains[var] \ stack[p].untried :
                  \A u \in stack[p].untried :
                      Eliminations(var, t, U) <= Eliminations(var, u, U)

\* C11: with a slot left unassigned, select_unassigned_variable returns an
\* unassigned slot of smallest domain, and among the unassigned slots of
\* that domain size one with the most neighbours.
SelectIsMRVDegree ==
    (call.op = "select_unassigned_variable"
        /\ DOMAIN call.assignment # crossword.variables) =>
        /\ ~call.raised
        /\ call.value \in
              MRVDegreeChoices(crossword.variables \ DOMAIN call.assignment)

\* C11 witness: the call chose among three unassigned slots, two of them
\* tied on the smallest domain size and differing in neighbours.
SelectIsMRVDegreeWitness ==
    /\ call.op = "select_unassigned_variable"
    /\ call.assignment = EmptyDict
    /\ crossword.variables = ChainVars
    /\ \E u \in crossword.variables :
          /\ u # call.value
          /\ Cardinality(domains[u]) = Cardinality(domains[call.value])
          /\ Degree(u) < Degree(call.value)
    /\ \E u \in crossword.variables :
          Cardinality(domains[u]) > Cardinality(domains[call.value])

\* C12: order_domain_values returns each word of the slot's domain exactly
\* once, in ascending order of the number of (unassigned neighbour n, word v
\* of domain(n)) pairs that disagree with it at the overlap; assigned
\* neighbours count for nothing.
OrderIsLeastConstraining ==
    call.op = "order_domain_values" =>
        LET U == crossword.variables \ DOMAIN call.assignment
            value == call.value
        IN  /\ DOMAIN value = 1..Cardinality(domains[call.var])
            /\ {value[m] : m \in DOMAIN value} = domains[call.var]
            /\ \A m \in DOMAIN value, n \in DOMAIN value :
                  m < n => Eliminations(call.var, value[m], U)
                              <= Eliminations(call.var, value[n], U)

OrderIsLeastConstrainingWitness ==
    /\ call.op = "order_domain_values"
    /\ neighbors(crossword, call.var) \cap DOMAIN call.assignment # {}
    /\ neighbors(crossword, call.var) \ DOMAIN call.assignment # {}
    /\ Len(call.value) >= 2
    /\ LET U == crossword.variables \ DOMAIN call.assignment
       IN  /\ Eliminations(call.var, call.value[1], U)
                < Eliminations(call.var, call.value[Len(call.value)], U)
           \* the assigned neighbour's domain holds a word the first word
           \* disagrees with, which is not counted
           /\ Eliminations(call.var, call.value[1], crossword.variables)
                > Eliminations(call.var, call.value[1], U)

\* Every assigned word has its slot's length, and the words of two assigned
\* crossing slots differ and agree where the slots cross.
FitsAndAgrees(a) ==
    /\ \A x \in DOMAIN a : Len(a[x]) = x.length
    /\ \A x \in DOMAIN a, y \in DOMAIN a :
          Neighbouring(x, y) => a[x] # a[y] /\ Agree(x, a[x], y, a[y])

\* C13: on every assignment, the empty string included, consistent is
\* true exactly when every assigned word has its slot's length and the words
\* of assigned crossing slots differ and agree at the overlap, whatever the
\* iteration order.  consistent skips empty words, and n_value[j] can raise
\* IndexError before the length of n_value is looked at.
ConsistentIsExact ==
    call.op = "consistent" =>
        /\ call.value \in {"True", "False"}
        /\ call.value = "True" <=> FitsAndAgrees(call.assignment)

\* C14: solve() terminates: ac3's loop ends and backtrack returns.
SolveTerminates == <>(pc = "done")

\* solve() has returned after ac3 ran to its end and the search tried, in
\* vain, several words of every slot.
SolveTerminatesWitness ==
    /\ pc = "done"
    /\ ac3result = "true"
    /\ result.none
    /\ \A v \in crossword.variables : Cardinality(domains[v]) >= 2

\* C15: when the vocabulary has no word of some slot's length, solve()
\* returns no solution, whether or not that slot crosses another.
NoWordForASlotNoSolution ==
    (pc = "done" /\ \E v \in crossword.variables :
                        RightLength(crossword, v) = {}) =>
        result.none

\* The slot without a word crosses no other slot, so ac3 returned True, and
\* the search tried the words of the other slot.
NoWordForASlotNoSolutionWitness ==
    /\ pc = "done"
    /\ result.none
    /\ ac3result = "true"
    /\ \E v \in crossword.variables :
          /\ RightLength(crossword, v) = {}
          /\ neighbors(crossword, v) = {}
    /\ \E v \in crossword.variables : Cardinality(domains[v]) >= 2

\* C16: update(probabilities, one_gene, two_genes, have_trait, p) with
\* one_gene and two_genes disjoint adds p, for every person, to exactly one
\* gene entry (1 for a person in one_gene, 2 for a person in two_genes, 0
\* otherwise) and exactly one trait entry (True for a person in have_trait),
\* and leaves every other entry as it was.
UpdateAddsOnce ==
    (hpc = "main" /\ updates > 0) =>
        /\ DOMAIN probabilities = DOMAIN before
        /\ \A person \in DOMAIN probabilities :
              LET now == probabilities[person]
                  was == before[person]
                  g == IF person \in update_args.one_gene THEN 1
                       ELSE IF person \in update_args.two_genes THEN 2
                       ELSE 0
                  t == person \in update_args.have_trait
              IN  /\ now.gene = [k \in 0..2 |->
                          IF k = g THEN was.gene[k] + update_args.p
                                   ELSE was.gene[k]]
                  /\ now.trait = [k \in BOOLEAN |->
                          IF k = t THEN was.trait[k] + update_args.p
                                   ELSE was.trait[k]]

\* A later call of update has returned; it had a person with one copy, a
\* person with two and a person without the trait.
UpdateAddsOnceWitness ==
    /\ hpc = "main"
    /\ updates = MaxUpdates
    /\ update_args.one_gene # {}
    /\ update_args.two_genes # {}
    /\ update_args.have_trait \notin {{}, names}
    /\ \E person \in names : before[person].gene[0] > 0

\* C17: whenever a call of backtrack returns failure, the assignment holds
\* exactly the entries it held when the call was entered.
FailureRestoresAssignment ==
    [][(pc = "loop" /\ pc' = "return") =>
            assignment' = stack[Len(stack)].entered]_vars

\* A recursive call, entered with a word already assigned, has returned
\* failure after trying several words.
FailureRestoresAssignmentWitness ==
    /\ pc = "return"
    /\ ret.none
    /\ stack # <<>>
    /\ assignment # EmptyDict
    /\ \A v \in crossword.variables : Cardinality(domains[v]) >= 2

\* C18: during the search the domains are only read: no step of backtrack
\* changes them.
SearchReadsDomainsOnly ==
    [][(pc \in BacktrackPcs) => (domains' = domains)]_vars

\* Deep in the search: a recursive call has written its word, after its
\* caller's loop went past a first word.
SearchReadsDomainsOnlyWitness ==
    /\ pc = "check"
    /\ Len(stack) >= 2
    /\ stack[1].untried # domains[stack[1].variable] \ {assignment[stack[1].variable]}

\* C19: in ac3, when revising the popped arc (x, y) changed domain(x)
\* without emptying it, the worklist holds (x, z) and (z, x) for every
\* neighbour z of x before the next arc is popped; when revise changed
\* nothing, no arc is added.
Ac3RequeuesBothDirections ==
    [][pc = "ac3_after" =>
          IF revised
          THEN domains[arc[1]] # {} =>
                  \A z \in crossword.variables :
                      Neighbouring(arc[1], z) =>
                          <<arc[1], z>> \in arcs' /\ <<z, arc[1]>> \in arcs'
          ELSE arcs' = arcs]_vars

\* ac3 is about to pop again after revise shrank the domain of a slot with
\* two neighbours, and arcs that had left the worklist are back in it.
Ac3RequeuesBothDirectionsWitness ==
    /\ pc = "ac3_loop"
    /\ arc # NoArc
    /\ revised
    /\ domains[arc[1]] # {}
    /\ Cardinality(neighbors(crossword, arc[1])) >= 2
    /\ arc \in arcs
    /\ \A z \in neighbors(crossword, arc[1]) :
          <<arc[1], z>> \in arcs /\ <<z, arc[1]>> \in arcs

\* What remains of a domain store when every word without a partner in the
\* domain of some crossing slot is removed, again and again until none is
\* left to remove.  It is a function of the store alone.
RECURSIVE Pruned(_)
Pruned(doms) ==
    LET once == [x \in DOMAIN doms |->
                    {w \in doms[x] :
                        \A y \in DOMAIN doms :
                            Neighbouring(x, y) =>
                                \E v \in doms[y] : Agree(x, w, y, v)}]
    IN  IF once = doms THEN doms ELSE Pruned(once)

\* C20: what ac3, seeded with all arcs, returns does not depend on the
\* order in which arcs are drawn: failure or success is decided by the
\* node-consistent store, and so are the domains left on success.
Ac3OutcomeIsOrderIndependent ==
    pc = "ac3_returned" =>
        LET start == [v \in crossword.variables |-> RightLength(crossword, v)]
            fixed == Pruned(start)
        IN  /\ ac3result = "false" <=>
                  \E v \in crossword.variables :
                      start[v] # {} /\ fixed[v] = {}
            /\ ac3result = "true" => domains = fixed

\* ac3 succeeded after shrinking the domains of two slots, which different
\* draw orders do in different steps.
Ac3OutcomeIsOrderIndependentWitness ==
    /\ pc = "ac3_returned"
    /\ ac3result = "true"
    /\ \E u \in crossword.variables, v \in crossword.variables :
          /\ u # v
          /\ domains[u] # RightLength(crossword, u)
          /\ domains[v] # RightLength(crossword, v)
          /\ domains[u] # {}

\* Every assigned word has its slot's length and the words of assigned
\* crossing slots agree where the slots cross.
LengthsAndOverlapsHold(a) ==
    /\ \A x \in DOMAIN a : Len(a[x]) = x.length
    /\ \A x \in DOMAIN a, y \in DOMAIN a :
          Neighbouring(x, y) => Agree(x, a[x], y, a[y])

\* C21: at every point of the search, the point between the writing of a
\* candidate word and the call of consistent included, every assigned word
\* has its slot's length and assigned crossing slots agree at the overlap.
\* backtrack writes the word (line 321) before consistent looks at it
\* (line 323).
SearchAssignmentAlwaysAgrees ==
    pc \in BacktrackPcs => LengthsAndOverlapsHold(assignment)

\* The complete consistent assignments over the vocabulary.
VocabularySolutions ==
    Solutions(crossword, [v \in crossword.variables |-> crossword.words])

\* C22: pruning loses no solution.  When a complete consistent assignment
\* over the vocabulary exists, node consistency followed by ac3 leaves each
\* of its words in its slot's domain and ac3 returns success, and solve()
\* returns an assignment.
PruningKeepsSolutions ==
    /\ pc = "ac3_returned" =>
          /\ \A a \in VocabularySolutions :
                \A v \in crossword.variables : a[v] \in domains[v]
          /\ VocabularySolutions # {} => ac3result = "true"
    /\ (pc = "done" /\ VocabularySolutions # {}) => ~result.none

\* solve() returned an assignment although node consistency and ac3 both
\* removed words from the domain of a slot that crosses another.
PruningKeepsSolutionsWitness ==
    /\ pc = "done"
    /\ ~result.none
    /\ \E v \in crossword.variables :
          /\ neighbors(crossword, v) # {}
          /\ domains[v] # RightLength(crossword, v)
          /\ RightLength(crossword, v) # crossword.words
====
